---- MODULE Spec2Model ----
(***************************************************************************)
(* A model of src/util/cv_learn.py: the configuration validator CVConfig   *)
(* and the incremental cross-validation engine RunCVExperiments.           *)
(*                                                                         *)
(* The module holds one specification per unit of the program:             *)
(*   Spec          CVConfig construction followed by the head of           *)
(*                 RunCVExperiments.__init__ (lines 198-347)               *)
(*   SpecGS        RunCVExperiments._do_grid_search_round                  *)
(*   SpecGSLoop    the loop over the learners of _do_grid_search_round     *)
(*                 (586-616), from the values lines 560-578 hand it        *)
(*   SpecCV        RunCVExperiments._do_training_cross_validation          *)
(*   SpecCopies    the per-fold estimator copies of __init__ (377-382)     *)
(*   SpecBaseline  RunCVExperiments._get_majority_baseline                 *)
(*   SpecVec       RunCVExperiments._make_vectorizer                       *)
(*   SpecSchema    CVConfig construction over learner keys, non-NLP        *)
(*                 features and prediction labels                          *)
(*   SpecFeatures  RunCVExperiments.store_sorted_features, on the copies   *)
(*   SpecRescale   the rescaling of one fold's predictions (672-689)       *)
(*   SpecTail      the end of __init__ (389-398): the cross-validation     *)
(*                 stage, the aggregation of its stats, the baseline       *)
(* A unit starts from the values its caller hands it, drawn from bounded   *)
(* sets.  Python is modelled as it executes: a name that no enclosing      *)
(* scope binds raises NameError, a call that passes more positional        *)
(* arguments than the function declares raises TypeError, and a raise      *)
(* ends the unit with the state written so far.                            *)
(***************************************************************************)
EXTENDS Integers, Sequences, FiniteSets, TLC

(***************************************************************************)
(* Bounds of the model.                                                    *)
(***************************************************************************)
MaxLearners == 2
MaxGrids == 2

(***************************************************************************)
(* Python values.  None is the empty tuple and a present optional value v  *)
(* the one-element tuple <<v>>.                                            *)
(***************************************************************************)
None == <<>>
Some(v) == <<v>>
IsNone(x) == x = <<>>
Val(x) == x[1]

\* Truth value of an optional number: None and 0 are false.
Truthy(x) == ~IsNone(x) /\ Val(x) # 0

(***************************************************************************)
(* Name resolution.  ModuleNames are the names bound at module level of    *)
(* cv_learn.py: its imports, the logger shorthands, the two classes and    *)
(* main.  A function body sees its own locals and these.                   *)
(***************************************************************************)
ModuleNames ==
    {"logging", "copy", "dump", "makedirs", "chain", "join", "isdir", "isfile",
     "dirname", "realpath", "filterwarnings", "np", "pd", "Any", "Dict", "List",
     "Union", "Iterable", "Optional", "ASCENDING", "kappa", "pearsonr",
     "make_scorer", "Or", "And", "Schema", "SchemaError", "Default",
     "Collection", "MiniBatchKMeans", "ConnectionFailure", "GridSearchCV",
     "ParameterGrid", "BernoulliNB", "MultinomialNB", "ArgumentParser",
     "ArgumentDefaultsHelpFormatter", "StratifiedKFold", "FeatureHasher",
     "DictVectorizer", "Perceptron", "PassiveAggressiveRegressor",
     "connect_to_db", "LABELS", "Scorer", "Learner", "Numeric", "formatter",
     "Vectorizer", "VALID_GAMES", "LEARNER_DICT", "LABELS_STRING", "ex",
     "LEARNER_DICT_KEYS", "parse_games_string", "LEARNER_ABBRS_DICT",
     "OBJ_FUNC_ABBRS_DICT", "LEARNER_ABBRS_STRING", "OBJ_FUNC_ABBRS_STRING",
     "parse_learners_string", "find_default_param_grid",
     "parse_non_nlp_features_string", "validate_bin_ranges",
     "get_bin_ranges_helper", "logger", "logging_debug", "loginfo", "logerr",
     "logdebug", "sh", "CVConfig", "RunCVExperiments", "main"}

Resolves(name, locals) == name \in locals \cup ModuleNames

\* def _generate_samples(ids, key=None): the positional parameters it declares.
GenerateSamplesParams == <<"ids", "key">>

\* A call through self passes the instance first, then the written arguments.
BoundCallBinds(params, nargs) == 1 + nargs <= Len(params)

(***************************************************************************)
(* The registries cv_learn.py imports from the package.                    *)
(***************************************************************************)
LEARNER_DICT_KEYS == {"perc", "bnb", "mbkm"}

LEARNER_ABBRS_DICT ==
    [k \in LEARNER_DICT_KEYS |->
        CASE k = "perc" -> "Perceptron"
          [] k = "bnb" -> "BernoulliNB"
          [] k = "mbkm" -> "MiniBatchKMeans"]

OBJ_FUNC_ABBRS_DICT == {"pearson_r", "uwk", "lwk", "qwk"}

LABELS == {"total_game_hours_bin", "num_guides", "num_friends"}

VALID_GAMES == {"Dota_2", "Arma_3"}

sampling_options == {"even", "stratified"}

\* CVConfig._n_features_feature_hashing = 2 ** 18
n_features_feature_hashing == 262144

VARIABLES
    pc,          \* position of the unit being run
    err,         \* the exception that ended the unit, "none" while there is none
    params,      \* the arguments of CVConfig(...)
    validated,   \* CVConfig.validated, None before schema validation returns
    sampled,     \* whether ExperimentalData was built (identifiers drawn, datastore read)
    vec,         \* the vectorizer _make_vectorizer constructed, None before
    gs,          \* _do_grid_search_round: its inputs and what it has written
    cv,          \* _do_training_cross_validation: its inputs and what it has written
    cp,          \* the estimator copies: the inputs, the heap and _cv_learners
    mb,          \* _get_majority_baseline: _y_all, _majority_label, the array
    run,         \* the stages of the run begun so far, in order
    rp,          \* the rescaling of one fold's predictions: inputs and arrays
    rof,         \* _resolve_objective_function: the objective and what it returns
    args         \* main: the command-line arguments and what it finds on the host

vars == <<pc, err, params, validated, sampled, vec, gs, cv, cp, mb, run, rp, rof, args>>

\* A unit that a specification does not run keeps this value.
Idle == <<>>

(***************************************************************************)
(* CVConfig.__init__                                                       *)
(***************************************************************************)
\* The parameter sets the model draws CVConfig's arguments from.
LearnerLists ==
    UNION {[1..n -> LEARNER_DICT_KEYS \cup {"nope"}] : n \in 0..MaxLearners}

\* A parameter grid maps parameter names to lists of values; a list is
\* modelled by its name.
ParamNames == {"alpha", "batch_size"}

DefaultGrid == [n \in {"alpha"} |-> "alphas"]

GridLists == UNION {[1..n -> {DefaultGrid}] : n \in 0..MaxGrids}

ParamSets ==
    [db : {"Collection"},
     games : {{}, {"Dota_2"}},
     learners : LearnerLists,
     param_grids : GridLists,
     training_rounds : {0, 1, 3},
     training_samples_per_round : {50},
     grid_search_samples_per_fold : {100},
     non_nlp_features : {{}},
     prediction_label : {"total_game_hours_bin"},
     objective : {None, Some("qwk"), Some("r2")},
     data_sampling : {Some("even")},
     grid_search_folds : {Some(5)},
     hashed_features : {None, Some(-1), Some(0), Some(7)},
     nlp_features : {Some(TRUE)},
     bin_ranges : {None},
     lognormal : {Some(FALSE), Some(TRUE)},
     power_transform : {None, Some(0), Some(2)},
     majority_baseline : {Some(TRUE)},
     rescale : {Some(TRUE)}]

\* Lines 226-230: None, or an int that is no bool and is greater than -1.
HashedFeaturesValid(x) == IsNone(x) \/ Val(x) > -1

\* Lines 237-238: None, or a float other than 0.0.
PowerTransformValid(x) == IsNone(x) \/ Val(x) # 0

\* A label test that forgets the non-NLP features.
PredictionLabelInLabels(p) == p.prediction_label \in LABELS

\* Lines 219-221: x in LABELS and not x in params['non_nlp_features'].
PredictionLabelValid(p) ==
    /\ p.prediction_label \in LABELS
    /\ p.prediction_label \notin p.non_nlp_features

\* A rule that accepts every count that is not negative.
TrainingRoundsNotNegative(x) == x >= 0

\* Line 215: And(int, lambda x: x > 1).
TrainingRoundsValid(x) == x > 1

\* src.datasets.validate_bin_ranges returns None: every range runs from a
\* lower to a higher value, and each range begins above the end of the one
\* before it.  A float is modelled by an integer.
validate_bin_ranges(x) ==
    /\ \A k \in DOMAIN x : x[k][1] < x[k][2]
    /\ \A k \in 1..(Len(x) - 1) : x[k][2] < x[k + 1][1]

\* Lines 232-235: None, or a list of pairs of floats that the validator of
\* bin ranges accepts.
BinRangesValid(x) == IsNone(x) \/ validate_bin_ranges(Val(x))

\* Lines 208-242: the schema.  A parameter left None is removed before the
\* validation (lines 203-205), so an Optional key takes its default unchecked.
SchemaValid(p) ==
    /\ p.db = "Collection"
    /\ p.games \subseteq VALID_GAMES
    /\ \A k \in 1..Len(p.learners) : p.learners[k] \in LEARNER_DICT_KEYS
    /\ \A k \in 1..Len(p.param_grids) : DOMAIN p.param_grids[k] \subseteq ParamNames
    /\ TrainingRoundsValid(p.training_rounds)
    /\ p.training_samples_per_round > 0
    /\ p.grid_search_samples_per_fold > 1
    /\ p.non_nlp_features \subseteq LABELS
    /\ PredictionLabelValid(p)
    /\ (IsNone(p.objective) \/ Val(p.objective) \in OBJ_FUNC_ABBRS_DICT)
    /\ (IsNone(p.data_sampling) \/ Val(p.data_sampling) \in sampling_options)
    /\ (IsNone(p.grid_search_folds) \/ Val(p.grid_search_folds) > 1)
    /\ HashedFeaturesValid(p.hashed_features)
    /\ (IsNone(p.nlp_features) \/ Val(p.nlp_features) \in BOOLEAN)
    /\ BinRangesValid(p.bin_ranges)
    /\ (IsNone(p.lognormal) \/ Val(p.lognormal) \in BOOLEAN)
    /\ PowerTransformValid(p.power_transform)
    /\ (IsNone(p.majority_baseline) \/ Val(p.majority_baseline) \in BOOLEAN)
    /\ (IsNone(p.rescale) \/ Val(p.rescale) \in BOOLEAN)

Default(x, d) == IF IsNone(x) THEN d ELSE x

\* Line 246: what exp_schema.validate returns, the defaults filled in.
SchemaValidated(p) ==
    [p EXCEPT !.data_sampling = Default(@, Some("even")),
              !.grid_search_folds = Default(@, Some(5)),
              !.nlp_features = Default(@, Some(TRUE)),
              !.lognormal = Default(@, Some(FALSE)),
              !.majority_baseline = Default(@, Some(TRUE)),
              !.rescale = Default(@, Some(TRUE))]

\* Lines 198-252: collect the arguments, validate them against the schema.
CVConfigInit ==
    /\ pc = "new"
    /\ IF SchemaValid(params)
       THEN /\ validated' = Some(SchemaValidated(params))
            /\ pc' = "validated"
            /\ err' = err
       ELSE /\ pc' = "raised"
            /\ err' = "SchemaError:schema"
            /\ validated' = validated
    /\ run' = Append(run, "config")
    /\ UNCHANGED <<params, sampled, vec, gs, cv, cp, mb, rp, rof, args>>

\* A size check that only notices learners without a grid.
SizesDifferOneWay(v) == Len(v.learners) > Len(v.param_grids)

\* Lines 268 and 279: the lists of learners and of parameter grids differ in size.
SizesDiffer(v) == Len(v.learners) # Len(v.param_grids)

\* A rewrite that drops the test for 0.
ResolveHashedFeaturesAlways(v) ==
    IF ~IsNone(v.hashed_features)
    THEN [v EXCEPT !.hashed_features = Some(n_features_feature_hashing)]
    ELSE v

\* Lines 272-274: 0 stands for the default number of hashed features.
ResolveHashedFeatures(v) ==
    IF ~IsNone(v.hashed_features) /\ Val(v.hashed_features) = 0
    THEN [v EXCEPT !.hashed_features = Some(n_features_feature_hashing)]
    ELSE v

\* An exclusivity test with the second operand negated.
BothTransformsNegated(v) == Val(v.lognormal) /\ ~Truthy(v.power_transform)

\* Line 275: both label transformations were asked for.
BothTransforms(v) == Val(v.lognormal) /\ Truthy(v.power_transform)

\* The method with the exclusivity test moved before the first size check.
FurtherValidateTransformsFirst ==
    /\ pc = "validated"
    /\ LET v == Val(validated)
           w == ResolveHashedFeatures(v)
       IN IF BothTransforms(v)
          THEN /\ pc' = "raised"
               /\ err' = "SchemaError:transforms"
               /\ validated' = validated
          ELSE IF SizesDiffer(v)
               THEN /\ pc' = "raised"
                    /\ err' = "SchemaError:sizes"
                    /\ validated' = validated
               ELSE /\ validated' = Some(w)
                    /\ pc' = "configured" /\ err' = err
    /\ UNCHANGED <<params, sampled, vec, gs, cv, cp, mb, run, rp, rof, args>>

\* Lines 257-283, called at line 255.
FurtherValidateAndSetup ==
    /\ pc = "validated"
    /\ LET v == Val(validated)
           w == ResolveHashedFeatures(v)
       IN IF SizesDiffer(v)
          THEN /\ pc' = "raised"
               /\ err' = "SchemaError:sizes"
               /\ validated' = validated
          ELSE /\ validated' = Some(w)
               /\ IF BothTransforms(w)
                  THEN pc' = "raised" /\ err' = "SchemaError:transforms"
                  ELSE IF SizesDiffer(w)
                       THEN pc' = "raised" /\ err' = "SchemaError:sizes"
                       ELSE pc' = "configured" /\ err' = err
    /\ UNCHANGED <<params, sampled, vec, gs, cv, cp, mb, run, rp, rof, args>>

(***************************************************************************)
(* RunCVExperiments.__init__, lines 310-347.  The statements after line    *)
(* 347 are the subject of the unit specifications below.                   *)
(***************************************************************************)
\* Lines 438-457: the names _generate_experimental_data reads.
GenerateExperimentalDataLocals == {"self"}

GenerateExperimentalDataRaises ==
    ~Resolves("data_sampling", GenerateExperimentalDataLocals)

\* A test that lets a missing objective through.
ObjectiveUnrecognizedUnlessNone(cfg) ==
    ~IsNone(cfg.objective) /\ Val(cfg.objective) \notin OBJ_FUNC_ABBRS_DICT

\* Line 334: not self._cfg.objective in OBJ_FUNC_ABBRS_DICT.
ObjectiveUnrecognized(cfg) ==
    IsNone(cfg.objective) \/ Val(cfg.objective) \notin OBJ_FUNC_ABBRS_DICT

RunCVExperimentsInit ==
    /\ pc = "configured"
    /\ LET cfg == Val(validated)
       IN IF cfg.games = {}
          THEN /\ pc' = "raised" /\ err' = "ValueError:games"
               /\ UNCHANGED <<sampled, run>>
          ELSE IF ObjectiveUnrecognized(cfg)
               THEN /\ pc' = "raised" /\ err' = "ValueError:objective"
                    /\ UNCHANGED <<sampled, run>>
               ELSE /\ run' = Append(run, "sampling")
                    /\ IF GenerateExperimentalDataRaises
                       THEN pc' = "raised" /\ err' = "NameError:data_sampling"
                            /\ sampled' = sampled
                       ELSE pc' = "sampled" /\ err' = err /\ sampled' = TRUE
    /\ UNCHANGED <<params, validated, vec, gs, cv, cp, mb, rp, rof, args>>

Init ==
    /\ pc = "new"
    /\ err = "none"
    /\ params \in ParamSets
    /\ validated = None
    /\ sampled = FALSE
    /\ vec = None
    /\ gs = Idle /\ cv = Idle /\ cp = Idle /\ mb = Idle
    /\ run = <<>> /\ rp = Idle
    /\ rof = Idle /\ args = Idle

Next == CVConfigInit \/ FurtherValidateAndSetup \/ RunCVExperimentsInit

Spec == Init /\ [][Next]_vars

\* Lines 300-398: the stages of __init__ in the order of its statements,
\* after the construction of the configuration (main, lines 1131-1152).
StagesOfRun(cfg) ==
    <<"config", "sampling", "vectorizer", "grid_search", "copies",
      "cross_validation", "aggregation">>
    \o (IF Val(cfg.majority_baseline) THEN <<"baseline">> ELSE <<>>)

\* The errors that reject the arguments of a run.
ArgumentErrors ==
    {"SchemaError:schema", "SchemaError:sizes", "SchemaError:transforms",
     "ValueError:games", "ValueError:objective"}

\* The run is over: __init__ raised, or the model has no further step.
RunEnded == pc \in {"raised", "sampled"}

\* C19: the stages begun are at any time the first ones of the list
\* configuration, sampling, vectorizer, grid search, copies, cross-
\* validation, aggregation, baseline, each once; and a run whose arguments
\* are accepted has gone through all of them when it ends, the baseline
\* being the last exactly when majority_baseline is set.
C19_StagesInOrder ==
    /\ LET all == StagesOfRun([majority_baseline |-> Some(TRUE)])
       IN \A k \in DOMAIN run : k <= Len(all) /\ run[k] = all[k]
    /\ (RunEnded /\ err \notin ArgumentErrors)
         => run = StagesOfRun(Val(validated))

(***************************************************************************)
(* RunCVExperiments._make_vectorizer, lines 459-494, as __init__ calls it  *)
(* at lines 353-354: _make_vectorizer(all_ids, self._cfg.hashed_features). *)
(***************************************************************************)
MaxIds == 2

IdLists == UNION {[1..n -> {"id1", "id2"}] : n \in 0..MaxIds}

\* Lines 479-487: the vectorizer constructed for a value of hashed_features; a
\* value below 1 that is not false raises before any is constructed.
VectorizerFor(hashed_features) ==
    IF Truthy(hashed_features)
    THEN IF Val(hashed_features) < 1
         THEN None
         ELSE Some([kind |-> "FeatureHasher", n_features |-> Val(hashed_features)])
    ELSE Some([kind |-> "DictVectorizer", n_features |-> 0])

\* Lines 496-512: _fit_vectorizer calls self._generate_samples(ids, 'x').
FitVectorizerRaises == ~BoundCallBinds(GenerateSamplesParams, 2)

MakeVectorizer ==
    /\ pc = "configured"
    /\ \E ids \in IdLists :
        LET hashed_features == Val(validated).hashed_features
            v == VectorizerFor(hashed_features)
        IN /\ vec' = v
           /\ IF IsNone(v)
              THEN pc' = "raised" /\ err' = "ValueError:hashed_features"
              ELSE IF ids = <<>>
                   THEN pc' = "raised" /\ err' = "ValueError:ids"
                   ELSE IF FitVectorizerRaises
                        THEN pc' = "raised" /\ err' = "TypeError:_generate_samples"
                        ELSE pc' = "vectorized" /\ err' = err
    /\ UNCHANGED <<params, validated, sampled, gs, cv, cp, mb, run, rp, rof, args>>

NextVec == CVConfigInit \/ FurtherValidateAndSetup \/ MakeVectorizer

SpecVec == Init /\ [][NextVec]_vars

(***************************************************************************)
(* Claims about CVConfig.                                                  *)
(***************************************************************************)
ConstructionErrors ==
    {"SchemaError:schema", "SchemaError:sizes", "SchemaError:transforms"}

\* CVConfig(...) raised: no configuration object exists.
ConstructionFailed == pc = "raised" /\ err \in ConstructionErrors

\* CVConfig(...) returned a configuration object.
ConstructionReturned ==
    \/ pc \in {"configured", "sampled", "vectorized"}
    \/ pc = "raised" /\ err \notin ConstructionErrors

\* C7: a configuration whose construction returned has as many parameter grids
\* as learners; a parameter set in which the two lengths differ ends
\* construction with a SchemaError, and nothing was sampled or read from the
\* datastore by then.
C7_SizesAgreeOrConstructionFails ==
    /\ ConstructionReturned =>
          Len(Val(validated).learners) = Len(Val(validated).param_grids)
    /\ (/\ ConstructionFailed \/ ConstructionReturned
        /\ Len(params.learners) # Len(params.param_grids))
       => ConstructionFailed /\ ~sampled

C7_Witness ==
    /\ ConstructionFailed
    /\ err = "SchemaError:sizes"
    /\ Len(params.learners) # Len(params.param_grids)
    /\ ~sampled

BothRequested(p) == p.lognormal = Some(TRUE) /\ ~IsNone(p.power_transform)

\* C8 as stated: every parameter set with lognormal=True and a power_transform
\* other than None fails construction with the mutual-exclusivity error.
C8_AlwaysExclusivityError ==
    (BothRequested(params) /\ (ConstructionFailed \/ ConstructionReturned))
    => ConstructionFailed /\ err = "SchemaError:transforms" /\ ~sampled

\* C8 as amended: such a parameter set always fails construction, with nothing
\* sampled or read; the error raised is the mutual-exclusivity error exactly
\* when the set passes the schema and its two lists have the same length (the
\* schema and the size check come first).
C8_FailsExclusivityWhenReached ==
    (BothRequested(params) /\ (ConstructionFailed \/ ConstructionReturned))
    => /\ ConstructionFailed
       /\ ~sampled
       /\ err = "SchemaError:transforms"
            <=> (SchemaValid(params)
                 /\ Len(params.learners) = Len(params.param_grids))

C8_Witness ==
    /\ BothRequested(params)
    /\ ConstructionFailed
    /\ err = "SchemaError:transforms"
    /\ params.power_transform = Some(2)

\* C9: hashed_features=0 is still 0 when schema validation returns and is
\* 262144 once construction has returned; a positive value is kept and None
\* stays None; the vectorizer is constructed from the resolved value, a
\* FeatureHasher of that width, or a DictVectorizer for None.
C9_HashedFeaturesResolved ==
    /\ pc = "validated" => Val(validated).hashed_features = params.hashed_features
    /\ ConstructionReturned =>
         LET given == params.hashed_features
             held == Val(validated).hashed_features
         IN /\ given = Some(0) => held = Some(n_features_feature_hashing)
            /\ (~IsNone(given) /\ Val(given) > 0) => held = given
            /\ IsNone(given) => IsNone(held)
            /\ ~IsNone(vec) =>
                 /\ given = Some(0) =>
                      Val(vec) = [kind |-> "FeatureHasher",
                                  n_features |-> n_features_feature_hashing]
                 /\ (~IsNone(given) /\ Val(given) > 0) =>
                      Val(vec) = [kind |-> "FeatureHasher", n_features |-> Val(given)]
                 /\ IsNone(given) => Val(vec).kind = "DictVectorizer"

C9_Witness ==
    /\ params.hashed_features = Some(0)
    /\ ~IsNone(vec)
    /\ Val(vec).kind = "FeatureHasher"
    /\ Val(vec).n_features = 262144

MaxGSFolds == 5
MaxGSLabels == 1

LearnerNames == {LEARNER_ABBRS_DICT[k] : k \in LEARNER_DICT_KEYS}

LearnerNameLists == UNION {[1..n -> LearnerNames] : n \in 0..MaxLearners}

LabelValues == {0, 1, 2}

GSInputs ==
    {[requested |-> r, realized |-> k, learner_names |-> names,
      param_grids |-> [j \in 1..Len(names) |-> DefaultGrid],
      y_train |-> y, y_all |-> <<>>, cv_folds |-> None, fits |-> <<>>,
      fit_cv |-> <<>>, result |-> {}] :
        r \in 2..MaxGSFolds, k \in 0..MaxGSFolds, names \in LearnerNameLists,
        y \in UNION {[1..n -> LabelValues] : n \in 0..MaxGSLabels}}

\* Line 574: np.random.RandomState(12345).
prng_seed == 12345

\* Lines 575-578: sklearn.cross_validation.StratifiedKFold draws its fold
\* assignment when it is constructed, from the labels in their order, the
\* number of folds and the state of the generator; the assignment is
\* represented by what determines it.
StratifiedKFold(y, n_folds, random_state) ==
    [y |-> y, n_folds |-> n_folds, shuffle |-> TRUE, random_state |-> random_state]

\* Lines 596-598: too few folds were realized, or more than a quarter of the
\* requested folds were lost (folds_diff / requested > 0.25).
TooFewFolds(requested, realized) ==
    \/ realized < 2
    \/ 4 * (requested - realized) > requested

\* Line 593: param_grid['batch_size'] = len(y_train), written into the grid
\* the configuration holds.
WithBatchSize(grid, n) ==
    [name \in DOMAIN grid \cup {"batch_size"} |->
        IF name = "batch_size" THEN "n_samples" ELSE grid[name]]

\* Lines 586-614: the loop over the learners, from the k-th on.
RECURSIVE GridSearchLoop(_, _)
GridSearchLoop(k, g) ==
    IF k > Len(g.learner_names)
    THEN [g |-> g, err |-> "none"]
    ELSE LET name == g.learner_names[k]
             g1 == IF name = "MiniBatchKMeans"
                   THEN [g EXCEPT !.param_grids[k] = WithBatchSize(@, Len(g.y_train))]
                   ELSE g
         IN IF TooFewFolds(g1.requested, g1.realized)
            THEN [g |-> g1, err |-> "ValueError:folds"]
            ELSE GridSearchLoop(k + 1,
                    [g1 EXCEPT !.fits = Append(@, name),
                               !.fit_cv = Append(@, g1.cv_folds),
                               !.result = @ \cup {name}])

\* Line 561: the first statement that calls self._generate_samples(ids, 'y').
GridSearchSamplesRaise == ~BoundCallBinds(GenerateSamplesParams, 2)

DoGridSearchRound ==
    /\ pc = "gs_entry"
    /\ IF GridSearchSamplesRaise
       THEN pc' = "raised" /\ err' = "TypeError:_generate_samples" /\ gs' = gs
       ELSE LET out == GridSearchLoop(1,
                          [gs EXCEPT !.y_all = @ \o gs.y_train,
                                     !.cv_folds = Some(StratifiedKFold(
                                         gs.y_train, gs.realized, prng_seed))])
            IN /\ gs' = out.g
               /\ err' = out.err
               /\ pc' = IF out.err = "none" THEN "gs_done" ELSE "raised"
    /\ UNCHANGED <<params, validated, sampled, vec, cv, cp, mb, run, rp, rof, args>>

InitGS ==
    /\ pc = "gs_entry"
    /\ err = "none"
    /\ gs \in GSInputs
    /\ params = Idle /\ validated = None /\ sampled = TRUE /\ vec = None
    /\ cv = Idle /\ cp = Idle /\ mb = Idle
    /\ run = <<>> /\ rp = Idle
    /\ rof = Idle /\ args = Idle

SpecGS == InitGS /\ [][DoGridSearchRound]_vars

GSEnded == pc \in {"gs_done", "raised"}

C6_TwoFoldsProceed ==
    (GSEnded /\ gs.realized = 2)
    => pc = "gs_done" /\ gs.fits = gs.learner_names

C22_PoolHoldsGridSearchLabels ==
    GSEnded =>
      /\ gs.y_all = gs.y_train
      /\ Len(gs.y_all) = Len(gs.y_train)

\* C29: with R folds requested and K >= 2 realized, the round ends with the
\* data-sufficiency error exactly when 4 * (R - K) > R, and otherwise
\* returns: a loss of exactly a quarter of the folds, and K >= R, proceed.
C29_StrictQuarterThreshold ==
    (GSEnded /\ gs.realized >= 2)
    => /\ (pc = "raised" /\ err = "ValueError:folds")
            <=> 4 * (gs.requested - gs.realized) > gs.requested
       /\ 4 * (gs.requested - gs.realized) <= gs.requested => pc = "gs_done"

(***************************************************************************)
(* The loop of _do_grid_search_round, lines 586-616, entered with the      *)
(* labels of the grid-search samples already read.  gs.param_grids are the *)
(* dictionaries of the configuration: line 310 wraps config.validated in a *)
(* Series without copying them, and line 588 iterates over those objects.  *)
(***************************************************************************)
GridSearchLearners ==
    /\ pc = "gs_loop"
    /\ LET out == GridSearchLoop(1, gs)
       IN /\ gs' = out.g
          /\ err' = out.err
          /\ pc' = IF out.err = "none" THEN "gs_done" ELSE "raised"
    /\ UNCHANGED <<params, validated, sampled, vec, cv, cp, mb, run, rp, rof, args>>

InitGSLoop ==
    /\ pc = "gs_loop"
    /\ err = "none"
    /\ gs \in {[g EXCEPT !.y_all = g.y_train,
                          !.cv_folds = Some(StratifiedKFold(
                              g.y_train, g.realized, prng_seed))] : g \in GSInputs}
    /\ params = Idle /\ validated = None /\ sampled = TRUE /\ vec = None
    /\ cv = Idle /\ cp = Idle /\ mb = Idle /\ run = <<>> /\ rp = Idle
    /\ rof = Idle /\ args = Idle

SpecGSLoop == InitGSLoop /\ [][GridSearchLearners]_vars

MaxFolds == 3
MaxFoldSize == 2

FoldValues == UNION {[1..n -> {0, 1}] : n \in 1..MaxFoldSize}

TrainingSets == UNION {[1..n -> FoldValues] : n \in 0..MaxFolds}

CVInputs ==
    {[training_set |-> ts, learner_names |-> names, i |-> 0,
      rescale |-> rescale, accumulators |-> <<>>,
      y_training_set_all |-> <<>>, y_all |-> <<>>, events |-> <<>>,
      stats |-> [j \in 1..Len(names) |-> <<>>]] :
        ts \in TrainingSets, names \in LearnerNameLists, rescale \in BOOLEAN}

\* Line 637: the names in scope where the training folds are selected.
TrainingFoldsLocals == {"self", "y_training_set_all", "i", "held_out_fold"}

\* Line 637: self._data.training_set[:i] + self_data.training_set[i + 1:].
TrainingFoldsRaise == ~Resolves("self_data", TrainingFoldsLocals)

\* Line 637: the numbers of the folds other than fold i, in fold order.
TrainingFoldNumbers(n, i) ==
    [k \in 1..(n - 1) |-> IF k - 1 < i THEN k - 1 ELSE k]

\* Lines 642-643 and 661-662: the calls self._generate_samples(fold, 'y').
FoldSamplesRaise == ~BoundCallBinds(GenerateSamplesParams, 2)

RECURSIVE Flatten(_)
Flatten(seqs) == IF seqs = <<>> THEN <<>> ELSE Head(seqs) \o Flatten(Tail(seqs))

\* Lines 607-614: the best estimator the grid search found for a learner,
\* the best_estimator_ attribute of its fitted GridSearchCV object.
EstimatorObject(name) == <<"estimator", name>>

\* Lines 377-382, 653 and 672: the estimator whose model state a call on
\* self._cv_learners[name][i] reads and updates.  Slot i holds copy() of the
\* fitted GridSearchCV object of the learner, a new wrapper around the same
\* best_estimator_: every slot of a learner leads to that one estimator.
SlotEstimator(name, i) == EstimatorObject(name)

\* Lines 639-653: one partial_fit of every learner's slot-i estimator per
\* training fold, fold by fold.
PartialFitEvents(names, i, folds) ==
    Flatten([f \in 1..Len(folds) |->
                [l \in 1..Len(names) |->
                    [op |-> "partial_fit", learner |-> names[l],
                     slot |-> i, fold |-> folds[f],
                     estimator |-> SlotEstimator(names[l], i)]]])

\* Lines 668-673: one prediction per learner on the held-out fold.
PredictEvents(names, i) ==
    [l \in 1..Len(names) |->
        [op |-> "predict", learner |-> names[l], slot |-> i, fold |-> i,
         estimator |-> SlotEstimator(names[l], i)]]

\* Lines 633-709: one pass of the outer loop, for held-out fold cv.i.
CVIteration ==
    /\ pc = "cv_loop"
    /\ cv.i < Len(cv.training_set)
    /\ IF TrainingFoldsRaise
       THEN pc' = "raised" /\ err' = "NameError:self_data" /\ cv' = cv
       ELSE IF FoldSamplesRaise
            THEN pc' = "raised" /\ err' = "TypeError:_generate_samples" /\ cv' = cv
            ELSE LET folds == TrainingFoldNumbers(Len(cv.training_set), cv.i)
                     y_train_all ==
                        Flatten([f \in 1..Len(folds) |-> cv.training_set[folds[f] + 1]])
                     y_test == cv.training_set[cv.i + 1]
                 IN /\ cv' = [cv EXCEPT
                          !.events = @ \o PartialFitEvents(cv.learner_names, cv.i, folds)
                                       \o PredictEvents(cv.learner_names, cv.i),
                          !.accumulators = Append(@, y_train_all),
                          !.y_training_set_all = @ \o y_test,
                          !.stats = [j \in DOMAIN @ |->
                                       Append(@[j],
                                              [fold |-> cv.i,
                                               n_train |-> Len(y_train_all),
                                               computed |-> {"rescaled", "fitted_only"},
                                               y_test_preds |->
                                                  IF cv.rescale THEN "rescaled"
                                                                ELSE "fitted_only",
                                               rescale |-> cv.rescale])],
                          !.i = @ + 1]
                    /\ UNCHANGED <<pc, err>>
    /\ UNCHANGED <<params, validated, sampled, vec, gs, cp, mb, run, rp, rof, args>>

\* Lines 711-713: the loop is over; _y_all takes the held-out labels.
CVReturn ==
    /\ pc = "cv_loop"
    /\ cv.i = Len(cv.training_set)
    /\ cv' = [cv EXCEPT !.y_all = @ \o cv.y_training_set_all]
    /\ pc' = "cv_done"
    /\ UNCHANGED <<err, params, validated, sampled, vec, gs, cp, mb, run, rp, rof, args>>

InitCV ==
    /\ pc = "cv_loop"
    /\ err = "none"
    /\ cv \in CVInputs
    /\ params = Idle /\ validated = None /\ sampled = TRUE /\ vec = None
    /\ gs = Idle /\ cp = Idle /\ mb = Idle
    /\ run = <<>> /\ rp = Idle
    /\ rof = Idle /\ args = Idle

NextCV == CVIteration \/ CVReturn

SpecCV == InitCV /\ [][NextCV]_vars

CVEnded == pc \in {"cv_done", "raised"}

\* The calls made on the slot-i estimator of a learner, in order.
SlotEvents(name, i) ==
    SelectSeq(cv.events, LAMBDA e : e.learner = name /\ e.slot = i)

\* C1: once the stage has ended, the calls on each learner's slot-i estimator
\* are one partial_fit per fold j # i, in ascending order of j, followed by
\* the prediction on fold i, for every fold i.
C1_FitOthersThenPredict ==
    CVEnded =>
      \A i \in 0..(Len(cv.training_set) - 1) :
        \A l \in 1..Len(cv.learner_names) :
          LET n == Len(cv.training_set)
              evs == SlotEvents(cv.learner_names[l], i)
              others == [k \in 1..(n - 1) |-> IF k - 1 < i THEN k - 1 ELSE k]
          IN /\ Len(evs) = n
             /\ \A k \in 1..(n - 1) :
                   evs[k].op = "partial_fit" /\ evs[k].fold = others[k]
             /\ evs[n].op = "predict" /\ evs[n].fold = i

\* C3: once the stage has ended, each learner's stats list holds one record
\* per training fold, tagged 0, 1, ..., F-1 in that order.
C3_OneRecordPerFold ==
    CVEnded =>
      \A j \in 1..Len(cv.learner_names) :
        /\ Len(cv.stats[j]) = Len(cv.training_set)
        /\ \A k \in 1..Len(cv.stats[j]) : cv.stats[j][k].fold = k - 1

\* C4: once the stage has ended, in each learner's stats list the record of
\* fold i+1 carries a larger training-sample count than the record of fold i.
C4_SampleCountIncreases ==
    CVEnded =>
      \A j \in 1..Len(cv.learner_names) :
        \A k \in 1..(Len(cv.training_set) - 1) :
          /\ k + 1 <= Len(cv.stats[j])
          /\ cv.stats[j][k + 1].n_train > cv.stats[j][k].n_train

\* C12: once the stage has ended, each (learner name, fold i) estimator has
\* received exactly one partial_fit per fold other than i, F-1 in all, also
\* when the learner list names a learner more than once.
C12_OneUpdatePerOtherFold ==
    CVEnded =>
      \A l \in 1..Len(cv.learner_names) :
        \A i \in 0..(Len(cv.training_set) - 1) :
          LET fits == SelectSeq(SlotEvents(cv.learner_names[l], i),
                                LAMBDA e : e.op = "partial_fit")
          IN /\ Len(fits) = Len(cv.training_set) - 1
             /\ \A j \in 0..(Len(cv.training_set) - 1) :
                   j # i => Cardinality({k \in DOMAIN fits : fits[k].fold = j}) = 1

\* C20: the stage, given folds it can read and estimators that accept every
\* call, ends by returning after exactly F passes of its loop, and every fold
\* was the held-out fold of exactly one pass, in fold order.
C20_AllFoldsHeldOutOnce ==
    CVEnded =>
      /\ pc = "cv_done"
      /\ cv.i = Len(cv.training_set)
      /\ cv.y_training_set_all = Flatten(cv.training_set)

\* The labels of the folds other than fold i, fold by fold, each sample once.
LabelsOfOtherFolds(i) ==
    LET folds == TrainingFoldNumbers(Len(cv.training_set), i)
    IN Flatten([f \in 1..Len(folds) |-> cv.training_set[folds[f] + 1]])

\* C21: once the stage has ended, a label accumulator was built for every
\* held-out fold i, and it holds exactly the labels of the folds other than
\* i, each once: no label of fold i, nothing left from an earlier pass.
C21_AccumulatorHoldsOtherFolds ==
    CVEnded =>
      /\ Len(cv.accumulators) = Len(cv.training_set)
      /\ \A i \in 0..(Len(cv.training_set) - 1) :
            cv.accumulators[i + 1] = LabelsOfOtherFolds(i)

\* C23: once the stage has ended, the stats record of every learner and fold
\* was made from both computed arrays, the evaluated array being the rescaled
\* one exactly when the rescale flag is set, and records that flag.
C23_FlagSelectsEvaluatedArray ==
    CVEnded =>
      \A j \in 1..Len(cv.learner_names) :
        /\ Len(cv.stats[j]) = Len(cv.training_set)
        /\ \A k \in 1..Len(cv.stats[j]) :
              /\ cv.stats[j][k].computed = {"rescaled", "fitted_only"}
              /\ cv.stats[j][k].y_test_preds = "rescaled" <=> cv.rescale
              /\ cv.stats[j][k].rescale = cv.rescale

\* The positions in cv.events of the predictions made with slot (name, i).
PredictionsOf(name, i) ==
    {k \in DOMAIN cv.events :
        /\ cv.events[k].op = "predict"
        /\ cv.events[k].learner = name /\ cv.events[k].slot = i}

GridSearchObject(name) == <<"GridSearchCV", name>>

\* The copy made in row r (one row per fold) for the c-th learner name.
CopyObject(r, c) == <<"copy", r, c>>

CopyInputs ==
    {[learner_names |-> names, folds |-> f,
      learner_gs_cv_dict |-> [n \in {names[k] : k \in 1..Len(names)} |->
                                 GridSearchObject(n)],
      heap |-> [o \in {GridSearchObject(names[k]) : k \in 1..Len(names)} |->
                   [best_estimator_ |-> EstimatorObject(o[2])]],
      cv_learners |-> <<>>, attempts |-> <<>>] :
        names \in LearnerNameLists, f \in 0..MaxFolds}

\* from copy import copy: the attributes of the new object.
ShallowCopy(heap, obj) == heap[obj]

\* Lines 377-379: one row of copies per fold, one copy per learner name.
CopyRows(c) ==
    [r \in 1..c.folds |->
        [k \in 1..Len(c.learner_names) |-> CopyObject(r, k)]]

\* The heap once the rows of copies exist.
HeapWithCopies(c) ==
    LET new == {CopyObject(r, k) : r \in 1..c.folds, k \in 1..Len(c.learner_names)}
    IN [o \in DOMAIN c.heap \cup new |->
          IF o \in new
          THEN ShallowCopy(c.heap, c.learner_gs_cv_dict[c.learner_names[o[3]]])
          ELSE c.heap[o]]

\* Lines 380-382: dict(zip(names, zip(*rows))), each value made a list; for a
\* name listed twice the later column wins, and no fold leaves no key.
CVLearners(c) ==
    LET rows == CopyRows(c)
        Last(name) == CHOOSE k \in 1..Len(c.learner_names) :
                         /\ c.learner_names[k] = name
                         /\ \A m \in (k + 1)..Len(c.learner_names) :
                               c.learner_names[m] # name
    IN [name \in IF c.folds = 0 THEN {}
                 ELSE {c.learner_names[k] : k \in 1..Len(c.learner_names)} |->
          [r \in 1..c.folds |-> rows[r][Last(name)]]]

MakeCopies ==
    /\ pc = "copy_entry"
    /\ cp' = [cp EXCEPT !.heap = HeapWithCopies(cp), !.cv_learners = CVLearners(cp)]
    /\ pc' = "copied"
    /\ UNCHANGED <<err, params, validated, sampled, vec, gs, cv, mb, run, rp, rof, args>>

InitCopies ==
    /\ pc = "copy_entry"
    /\ err = "none"
    /\ cp \in CopyInputs
    /\ params = Idle /\ validated = None /\ sampled = TRUE /\ vec = None
    /\ gs = Idle /\ cv = Idle /\ mb = Idle
    /\ run = <<>> /\ rp = Idle
    /\ rof = Idle /\ args = Idle

SpecCopies == InitCopies /\ [][MakeCopies]_vars

\* The objects whose state a call through a slot can change: the slot's own
\* object and the estimator it refers to.
Reachable(obj) == {obj, cp.heap[obj].best_estimator_}

\* C2: the estimators of two different folds' slots of a learner share no
\* object, so a partial_fit through one cannot change what the other reads.
C2_SlotsShareNothing ==
    pc = "copied" =>
      \A name \in DOMAIN cp.cv_learners :
        \A i, k \in 1..cp.folds :
          i # k => Reachable(cp.cv_learners[name][i])
                     \cap Reachable(cp.cv_learners[name][k]) = {}

(***************************************************************************)
(* RunCVExperiments.store_sorted_features, lines 787-835, on the           *)
(* dictionary _cv_learners.  cp.attempts lists the (learner name, fold)    *)
(* pairs print_model_weights was called for.  The handler of lines 826-829 *)
(* catches ValueError alone.                                               *)
(***************************************************************************)
\* Lines 297-298.
no_introspection_learners == {"MiniBatchKMeans", "PassiveAggressiveRegressor"}

\* Line 806: the keys of the dictionary built at line 380, in insertion
\* order: each learner name at its first place in the list, and no key when
\* there is no fold.
DictKeys(c) ==
    SelectSeq([k \in DOMAIN c.learner_names |-> <<k, c.learner_names[k]>>],
              LAMBDA e : /\ e[2] \in DOMAIN c.cv_learners
                         /\ \A m \in 1..(e[1] - 1) : c.learner_names[m] # e[2])

\* Line 812: for i, estimator in self._cv_learners[learner_name] unpacks each
\* item of the list, a GridSearchCV object, into two names; the object is
\* not iterable.
UnpackRaises(item) == item[1] # "pair"

\* Lines 806-829: the loop over the learner names, from the k-th key on.  The
\* unpacking of line 812 is outside the try of line 815; had it bound i and
\* estimator, line 825 would read the name learner, which nothing binds.
RECURSIVE SortedFeaturesLoop(_, _, _)
SortedFeaturesLoop(c, keys, k) ==
    IF k > Len(keys)
    THEN [c |-> c, err |-> "none"]
    ELSE LET name == keys[k][2]
             slots == c.cv_learners[name]
         IN IF name \in no_introspection_learners
            THEN SortedFeaturesLoop(c, keys, k + 1)
            ELSE IF slots = <<>>
                 THEN SortedFeaturesLoop(c, keys, k + 1)
                 ELSE IF UnpackRaises(slots[1])
                      THEN [c |-> c, err |-> "TypeError:unpack"]
                      ELSE [c |-> [c EXCEPT !.attempts = Append(@, <<name, 0>>)],
                            err |-> "NameError:learner"]

StoreSortedFeatures ==
    /\ pc = "copied"
    /\ LET out == SortedFeaturesLoop(cp, DictKeys(cp), 1)
       IN /\ cp' = out.c
          /\ err' = out.err
          /\ pc' = IF out.err = "none" THEN "features_done" ELSE "raised"
    /\ UNCHANGED <<params, validated, sampled, vec, gs, cv, mb, run, rp, rof, args>>

NextFeatures == MakeCopies \/ StoreSortedFeatures

SpecFeatures == InitCopies /\ [][NextFeatures]_vars

FeaturesEnded == pc \in {"features_done", "raised"}

\* C14: once feature-weight extraction has ended, it has returned, it made an
\* attempt for every fold of every introspectable learner (a failed attempt
\* being logged, not raised) and none for MiniBatchKMeans and
\* PassiveAggressiveRegressor.
C14_ExtractionCoversEveryLearner ==
    FeaturesEnded =>
      /\ pc = "features_done"
      /\ \A name \in DOMAIN cp.cv_learners :
            \A i \in 0..(cp.folds - 1) :
              (name \notin no_introspection_learners)
                <=> (\E k \in DOMAIN cp.attempts : cp.attempts[k] = <<name, i>>)

(***************************************************************************)
(* RunCVExperiments._get_majority_baseline, lines 715-724.                 *)
(* mb holds _y_all, _majority_label, the array returned and, in order, the *)
(* order in which set(self._y_all) was iterated.                           *)
(***************************************************************************)
MaxPool == 4

LabelPools == UNION {[1..n -> LabelValues] : n \in 0..MaxPool}

\* list.count
Count(seq, x) == Cardinality({k \in 1..Len(seq) : seq[k] = x})

\* The orders in which set(self._y_all) is iterated.  The labels are small
\* non-negative integers: each hashes to itself and takes the slot of that
\* number in the set's table, and iteration goes through the slots in order.
Orders(S) ==
    {o \in [1..Cardinality(S) -> S] : \A j, k \in DOMAIN o : j < k => o[j] < o[k]}

\* max without its key: the largest label.
MaxWithoutKey(order, pool) ==
    CHOOSE x \in {order[k] : k \in DOMAIN order} :
        \A k \in DOMAIN order : order[k] <= x

\* max keeping the last item of largest key instead of the first.
MaxByCountLast(order, pool) ==
    LET best == CHOOSE k \in DOMAIN order :
                   /\ \A m \in DOMAIN order :
                         Count(pool, order[m]) <= Count(pool, order[k])
                   /\ \A m \in (k + 1)..Len(order) :
                         Count(pool, order[m]) < Count(pool, order[k])
    IN order[best]

\* max(iterable, key=...): the first item, in iteration order, of largest key.
MaxByCount(order, pool) ==
    LET best == CHOOSE k \in DOMAIN order :
                   /\ \A m \in DOMAIN order :
                         Count(pool, order[m]) <= Count(pool, order[k])
                   /\ \A m \in 1..(k - 1) :
                         Count(pool, order[m]) < Count(pool, order[k])
    IN order[best]

\* Lines 723-724; max of an empty set raises ValueError.
GetMajorityBaseline ==
    /\ pc = "mb_entry"
    /\ IF mb.y_all = <<>>
       THEN pc' = "raised" /\ err' = "ValueError:max" /\ mb' = mb
       ELSE \E order \in Orders({mb.y_all[k] : k \in 1..Len(mb.y_all)}) :
               LET label == MaxByCount(order, mb.y_all)
               IN /\ mb' = [mb EXCEPT
                        !.majority_label = Some(label),
                        !.order = order,
                        !.baseline = [k \in 1..Len(mb.y_all) |-> label]]
                  /\ pc' = "mb_done"
                  /\ err' = err
    /\ UNCHANGED <<params, validated, sampled, vec, gs, cv, cp, run, rp, rof, args>>

InitBaseline ==
    /\ pc = "mb_entry"
    /\ err = "none"
    /\ mb \in {[y_all |-> y, majority_label |-> None, baseline |-> <<>>,
                  order |-> <<>>] : y \in LabelPools}
    /\ params = Idle /\ validated = None /\ sampled = TRUE /\ vec = None
    /\ gs = Idle /\ cv = Idle /\ cp = Idle
    /\ run = <<>> /\ rp = Idle
    /\ rof = Idle /\ args = Idle

SpecBaseline == InitBaseline /\ [][GetMajorityBaseline]_vars

\* C10: the majority label occurs in the pool at least as often as every other
\* label, and the baseline array has the pool's length and holds that label
\* at every position.
C10_MajorityLabelMostFrequent ==
    pc = "mb_done" =>
      LET label == Val(mb.majority_label)
          occurrences(x) == Cardinality({k \in DOMAIN mb.y_all : mb.y_all[k] = x})
      IN /\ occurrences(label) > 0
         /\ \A k \in DOMAIN mb.y_all : occurrences(mb.y_all[k]) <= occurrences(label)
         /\ Len(mb.baseline) = Len(mb.y_all)
         /\ \A k \in DOMAIN mb.baseline : mb.baseline[k] = label

C10_Witness ==
    /\ pc = "mb_done"
    /\ mb.y_all = <<0, 1, 1, 2>>
    /\ mb.majority_label = Some(1)
    /\ mb.baseline = <<1, 1, 1, 1>>

\* The labels of largest count in the pool.
TiedLabels ==
    {x \in {mb.y_all[k] : k \in DOMAIN mb.y_all} :
        \A k \in DOMAIN mb.y_all : Count(mb.y_all, mb.y_all[k]) <= Count(mb.y_all, x)}

\* The position at which a label is first observed in the pool.
FirstSeen(x) == CHOOSE k \in DOMAIN mb.y_all :
                   mb.y_all[k] = x /\ \A m \in 1..(k - 1) : mb.y_all[m] # x

\* The position of a label in the order the set of labels was iterated in.
IterationIndex(x) == CHOOSE k \in DOMAIN mb.order : mb.order[k] = x

\* C11 as stated: among the labels of largest count, the majority label is
\* the one observed first in the pool.
C11_FirstObservedTieWins ==
    pc = "mb_done" =>
      /\ Val(mb.majority_label) \in TiedLabels
      /\ \A x \in TiedLabels : FirstSeen(Val(mb.majority_label)) <= FirstSeen(x)

\* C11 as amended: among the labels of largest count, the majority label is
\* the one that comes first in the iteration order of the set of distinct
\* labels, whatever their order of observation in the pool.
C11_FirstIteratedTieWins ==
    pc = "mb_done" =>
      /\ Val(mb.majority_label) \in TiedLabels
      /\ \A x \in TiedLabels :
            IterationIndex(Val(mb.majority_label)) <= IterationIndex(x)

C11_Witness ==
    /\ pc = "mb_done"
    /\ mb.y_all = <<1, 0>>
    /\ mb.order = <<0, 1>>
    /\ mb.majority_label = Some(0)

(***************************************************************************)
(* RunCVExperiments.__init__, lines 389-398: the cross-validation stage,   *)
(* the aggregation of its stats and the evaluation of the majority         *)
(* baseline.  No statement of __init__ or of the stage handles an          *)
(* exception, so a raise inside the stage leaves __init__ at line 392.     *)
(***************************************************************************)
\* A configuration that construction returns, for a list of learner keys and
\* a value of majority_baseline.
ConfigFor(keys, majority_baseline) ==
    [db |-> "Collection",
     games |-> {"Dota_2"},
     learners |-> keys,
     param_grids |-> [k \in DOMAIN keys |-> DefaultGrid],
     training_rounds |-> 3,
     training_samples_per_round |-> 50,
     grid_search_samples_per_fold |-> 100,
     non_nlp_features |-> {},
     prediction_label |-> "total_game_hours_bin",
     objective |-> Some("qwk"),
     data_sampling |-> Some("even"),
     grid_search_folds |-> Some(5),
     hashed_features |-> None,
     nlp_features |-> Some(TRUE),
     bin_ranges |-> None,
     lognormal |-> Some(FALSE),
     power_transform |-> None,
     majority_baseline |-> Some(majority_baseline),
     rescale |-> Some(TRUE)]

\* Lines 363-364: the names of the learners of a list of keys.
NamesOf(keys) == [k \in DOMAIN keys |-> LEARNER_ABBRS_DICT[keys[k]]]

\* An aggregation that also runs when the stage was left by an exception, as
\* if line 392 were wrapped in a handler that goes on.
AggregateStatsAfterFailure ==
    /\ pc \in {"cv_done", "raised"}
    /\ run' = Append(run, "aggregation")
    /\ pc' = "aggregated"
    /\ UNCHANGED <<err, params, validated, sampled, vec, gs, cv, cp, mb, rp, rof, args>>

\* Lines 393-394, reached when line 392 returned.
AggregateStats ==
    /\ pc = "cv_done"
    /\ run' = Append(run, "aggregation")
    /\ pc' = "aggregated"
    /\ UNCHANGED <<err, params, validated, sampled, vec, gs, cv, cp, mb, rp, rof, args>>

\* Line 735: the names in scope in _evaluate_majority_baseline_model.
EvaluateMajorityBaselineLocals == {"self"}

\* Line 735 reads ext before it calls self._get_majority_baseline().
EvaluateMajorityBaselineRaises ==
    ~Resolves("ext", EvaluateMajorityBaselineLocals)

\* Lines 397-398 and 726-748.
EvaluateMajorityBaseline ==
    /\ pc = "aggregated"
    /\ IF Val(Val(validated).majority_baseline)
       THEN /\ run' = Append(run, "baseline")
            /\ IF EvaluateMajorityBaselineRaises
               THEN pc' = "raised" /\ err' = "NameError:ext"
               ELSE pc' = "init_done" /\ err' = err
       ELSE pc' = "init_done" /\ UNCHANGED <<err, run>>
    /\ UNCHANGED <<params, validated, sampled, vec, gs, cv, cp, mb, rp, rof, args>>

InitTail ==
    /\ pc = "cv_loop"
    /\ err = "none"
    /\ \E keys \in {l \in LearnerLists : \A k \in DOMAIN l : l[k] \in LEARNER_DICT_KEYS},
          majority_baseline \in BOOLEAN :
          /\ validated = Some(ConfigFor(keys, majority_baseline))
          /\ cv \in {c \in CVInputs :
                        /\ c.learner_names = NamesOf(keys)
                        /\ c.rescale = Val(ConfigFor(keys, majority_baseline).rescale)}
    /\ params = Idle /\ sampled = TRUE /\ vec = None
    /\ gs = Idle /\ cp = Idle /\ mb = Idle
    /\ run = <<>> /\ rp = Idle
    /\ rof = Idle /\ args = Idle

NextTail == CVIteration \/ CVReturn \/ AggregateStats \/ EvaluateMajorityBaseline

SpecTail == InitTail /\ [][NextTail]_vars

\* The exceptions a pass of the cross-validation loop raises.
CVStageErrors == {"NameError:self_data", "TypeError:_generate_samples"}

\* The cross-validation stage was left by an exception.
CVStageFailed == pc = "raised" /\ err \in CVStageErrors

NonNlpFeatureSets ==
    {{}, {"num_guides"}, {"num_guides", "num_friends"}, {"num_guides", "bogus"}}

PredictionLabels == {"total_game_hours_bin", "num_guides", "bogus"}

LabelParamSets ==
    {[ConfigFor(<<>>, TRUE) EXCEPT !.learners = l, !.param_grids = g,
                                   !.non_nlp_features = f, !.prediction_label = x] :
        l \in LearnerLists, g \in GridLists,
        f \in NonNlpFeatureSets, x \in PredictionLabels}

InitSchema ==
    /\ pc = "new"
    /\ err = "none"
    /\ params \in LabelParamSets
    /\ validated = None
    /\ sampled = FALSE
    /\ vec = None
    /\ gs = Idle /\ cv = Idle /\ cp = Idle /\ mb = Idle /\ run = <<>> /\ rp = Idle
    /\ rof = Idle /\ args = Idle

NextSchema == CVConfigInit \/ FurtherValidateAndSetup

SpecSchema == InitSchema /\ [][NextSchema]_vars

\* Some learner key is unknown, some non-NLP feature is no label, or the
\* prediction label is no label or is one of the non-NLP features.
UnknownKeyOrLabel(p) ==
    \/ \E k \in DOMAIN p.learners : p.learners[k] \notin LEARNER_DICT_KEYS
    \/ \E f \in p.non_nlp_features : f \notin LABELS
    \/ p.prediction_label \notin LABELS
    \/ p.prediction_label \in p.non_nlp_features

\* C16: construction fails, and nothing is sampled, for every parameter set
\* with a learner key outside the registry, a non-NLP feature outside the
\* labels, a prediction label outside the labels or a prediction label that
\* is also a non-NLP feature.
C16_UnknownKeyOrLabelFails ==
    (UnknownKeyOrLabel(params) /\ (ConstructionFailed \/ ConstructionReturned))
    => ConstructionFailed /\ IsNone(validated) /\ ~sampled

C16_Witness ==
    /\ ConstructionFailed
    /\ params.learners = <<"perc">>
    /\ Len(params.param_grids) = 1
    /\ params.prediction_label = "num_guides"
    /\ params.non_nlp_features = {"num_guides", "num_friends"}

(***************************************************************************)
(* CVConfig.__init__ on parameter sets that break several of its rules at  *)
(* once: unknown learners, lists of unequal length, a negative width of    *)
(* hashed features, both label transformations, bin ranges that overlap or *)
(* run downwards.                                                          *)
(***************************************************************************)
MaxBins == 2

BinPairs == {<<0, 1>>, <<1, 0>>, <<2, 3>>}

BinRangeLists == UNION {[1..n -> BinPairs] : n \in 1..MaxBins}

OrderParamSets ==
    {[ConfigFor(<<>>, TRUE) EXCEPT !.learners = l, !.param_grids = g,
                                   !.hashed_features = h, !.bin_ranges = b,
                                   !.lognormal = Some(ln), !.power_transform = pt] :
        l \in LearnerLists, g \in GridLists,
        h \in {None, Some(-1), Some(0)},
        b \in {None} \cup {Some(x) : x \in BinRangeLists},
        ln \in BOOLEAN, pt \in {None, Some(2)}}

InitOrder ==
    /\ pc = "new"
    /\ err = "none"
    /\ params \in OrderParamSets
    /\ validated = None /\ sampled = FALSE /\ vec = None
    /\ gs = Idle /\ cv = Idle /\ cp = Idle /\ mb = Idle
    /\ run = <<>> /\ rp = Idle
    /\ rof = Idle /\ args = Idle

SpecOrder == InitOrder /\ [][NextSchema]_vars

\* Every learner key is in the registry, every non-NLP feature is a label,
\* and the prediction label is a label that is no non-NLP feature.
MembershipHolds(p) ==
    /\ \A k \in DOMAIN p.learners : p.learners[k] \in LEARNER_DICT_KEYS
    /\ p.non_nlp_features \subseteq LABELS
    /\ p.prediction_label \in LABELS
    /\ p.prediction_label \notin p.non_nlp_features

\* Some pair of the bin ranges runs downwards, or two neighbours overlap or
\* are out of order.
BinRangesBroken(p) ==
    /\ ~IsNone(p.bin_ranges)
    /\ LET b == Val(p.bin_ranges)
       IN \/ \E k \in DOMAIN b : b[k][1] >= b[k][2]
          \/ \E k \in 1..(Len(b) - 1) : b[k][2] >= b[k + 1][1]

\* The width of hashed features is given and negative.
WidthBroken(p) == ~IsNone(p.hashed_features) /\ Val(p.hashed_features) < 0

ConstructionEnded == ConstructionFailed \/ pc = "configured"

\* C25 as stated: the length check comes second, right after the
\* membership checks, so that a parameter set whose members are all known and
\* whose lists differ in length fails with the length error, whatever is
\* wrong with its bin ranges or its width of hashed features.
C25_LengthErrorBeforeBinRanges ==
    (ConstructionEnded /\ MembershipHolds(params)
       /\ Len(params.learners) # Len(params.param_grids))
    => err = "SchemaError:sizes"

\* C25: the error is that of the earliest broken rule in this order: the
\* schema (membership, width of hashed features, bin ranges), then the
\* equality of the two lengths, then the exclusion of the two label
\* transformations; a parameter set that breaks none of them is accepted.
C25_EarliestBrokenRuleInCodeOrder ==
    ConstructionEnded =>
      IF ~MembershipHolds(params) \/ WidthBroken(params) \/ BinRangesBroken(params)
      THEN pc = "raised" /\ err = "SchemaError:schema"
      ELSE IF Len(params.learners) # Len(params.param_grids)
      THEN pc = "raised" /\ err = "SchemaError:sizes"
      ELSE IF BothRequested(params)
      THEN pc = "raised" /\ err = "SchemaError:transforms"
      ELSE pc = "configured"

C25_Witness ==
    /\ ConstructionFailed
    /\ err = "SchemaError:schema"
    /\ params.learners = <<"perc">>
    /\ params.param_grids = <<>>
    /\ params.bin_ranges = Some(<<<<2, 3>>, <<0, 1>>>>)
    /\ IsNone(params.hashed_features)

(***************************************************************************)
(* The rescaling of one held-out fold's predictions, lines 672-689.        *)
(* rescale_preds_and_fit_in_scale belongs to src/experiments.py; it is     *)
(* modelled from its description: the rounded predictions are mapped to an *)
(* array rescaled by the mean and standard deviation of the training       *)
(* labels and then fitted into the scale of the classes, and to an array   *)
(* only fitted into that scale.  Numbers are integers.                     *)
(***************************************************************************)
MaxPreds == 2

PredValues == -1..3

ClassDomains == {0..1, 0..2}

Lowest(S) == CHOOSE x \in S : \A y \in S : x <= y

Highest(S) == CHOOSE x \in S : \A y \in S : y <= x

\* A fit that leaves every value where it is.
NoFitInScale(x, classes) == x

\* A value below the lowest class becomes the lowest class, a value above the
\* highest class the highest.
FitInScale(x, classes) ==
    IF x < Lowest(classes) THEN Lowest(classes)
    ELSE IF x > Highest(classes) THEN Highest(classes)
    ELSE x

\* A prediction moved to the distribution of the training labels.
RescaleToTraining(x, mean, std) == x * std + mean

rescale_preds_and_fit_in_scale(y_preds, classes, mean, std) ==
    [rescaled |-> [k \in DOMAIN y_preds |->
                      FitInScale(RescaleToTraining(y_preds[k], mean, std), classes)],
     fitted_only |-> [k \in DOMAIN y_preds |-> FitInScale(y_preds[k], classes)]]

\* Lines 680-689: both arrays are computed, cfg.rescale selects one.
RescalePredictions ==
    /\ pc = "rescale_entry"
    /\ LET y_test_preds_dict ==
              rescale_preds_and_fit_in_scale(rp.y_test_preds, rp.classes,
                                             rp.y_train_mean, rp.y_train_std)
       IN rp' = [rp EXCEPT
                   !.y_test_preds_dict = Some(y_test_preds_dict),
                   !.y_test_preds = IF rp.rescale
                                    THEN y_test_preds_dict.rescaled
                                    ELSE y_test_preds_dict.fitted_only]
    /\ pc' = "rescaled"
    /\ UNCHANGED <<err, params, validated, sampled, vec, gs, cv, cp, mb, run, rof, args>>

InitRescale ==
    /\ pc = "rescale_entry"
    /\ err = "none"
    /\ rp \in [y_test_preds : UNION {[1..n -> PredValues] : n \in 0..MaxPreds},
                classes : ClassDomains,
                y_train_mean : 0..1,
                y_train_std : 0..2,
                rescale : BOOLEAN,
                y_test_preds_dict : {None}]
    /\ params = Idle /\ validated = None /\ sampled = TRUE /\ vec = None
    /\ gs = Idle /\ cv = Idle /\ cp = Idle /\ mb = Idle /\ run = <<>>
    /\ rof = Idle /\ args = Idle

SpecRescale == InitRescale /\ [][RescalePredictions]_vars

\* C17: for a held-out fold, every value of the fitted-only array and every
\* value of the rescaled array is a value of the class domain, and so is
\* every value of the array selected for the evaluation.
C17_RescaleLaw ==
    pc = "rescaled" =>
      LET d == Val(rp.y_test_preds_dict)
          InDomain(x) == Lowest(rp.classes) <= x /\ x <= Highest(rp.classes)
      IN /\ \A k \in DOMAIN d.fitted_only : InDomain(d.fitted_only[k])
         /\ \A k \in DOMAIN d.rescaled : InDomain(d.rescaled[k])
         /\ \A k \in DOMAIN rp.y_test_preds : InDomain(rp.y_test_preds[k])

C17_Witness ==
    /\ pc = "rescaled"
    /\ rp.classes = 0..2
    /\ rp.y_train_mean = 1 /\ rp.y_train_std = 2
    /\ rp.rescale
    /\ Val(rp.y_test_preds_dict).fitted_only = <<0, 2>>
    /\ rp.y_test_preds = <<0, 2>>
    /\ Val(rp.y_test_preds_dict).rescaled = <<0, 2>>

(***************************************************************************)
(* RunCVExperiments._resolve_objective_function, lines 400-436.  A Python  *)
(* string is the sequence of its characters, so that startswith is a test  *)
(* on a prefix.  rof.objective is self._cfg.objective (None, or a string); *)
(* rof.branch names the branch of the if/elif chain that produced the      *)
(* value, rof.returned holds the value returned.                           *)
(***************************************************************************)
MaxKeyLen == 4

KeyChars == {"u", "l", "q", "w", "k", "_"}

pearson_r == <<"p", "e", "a", "r", "s", "o", "n", "_", "r">>

uwk == <<"u", "w", "k">>

lwk == <<"l", "w", "k">>

qwk == <<"q", "w", "k">>

\* The objectives the method is applied to: None, and strings, '' included.
Objectives ==
    {None} \cup {Some(k) : k \in UNION {[1..n -> KeyChars] : n \in 0..MaxKeyLen}
                                  \cup {pearson_r}}

\* str.startswith.
StartsWith(str, prefix) ==
    Len(str) >= Len(prefix) /\ SubSeq(str, 1, Len(prefix)) = prefix

\* sklearn.metrics.make_scorer(fn, **kwargs): the callable made of a
\* metric function and the keyword arguments it will be called with.
make_scorer(fn, weights, allow_off_by_one) ==
    [kind |-> "callable", fn |-> fn, weights |-> weights,
     allow_off_by_one |-> allow_off_by_one]

\* Line 435: the objective itself, a metric name.
MetricName(objective) == [kind |-> "str", value |-> objective]

\* A third elif that tests for the prefix 'qwk'.
ThirdBranchOnQwk(objective) == StartsWith(objective, qwk)

\* Line 428: the test of the third elif, a second startswith('lwk').
ThirdBranchTest(objective) == StartsWith(objective, lwk)

\* Lines 411-436: the branch taken and the value returned.
ResolveObjective(objective) ==
    IF objective = None \/ Val(objective) = <<>>
    THEN [branch |-> "not objective", returned |-> [kind |-> "None"]]
    ELSE LET o == Val(objective)
         IN IF o = pearson_r
            THEN [branch |-> "pearson_r",
                  returned |-> make_scorer("pearsonr", None, FALSE)]
            ELSE IF StartsWith(o, uwk)
            THEN [branch |-> "uwk",
                  returned |-> IF o = uwk
                               THEN make_scorer("kappa", None, FALSE)
                               ELSE make_scorer("kappa", None, TRUE)]
            ELSE IF StartsWith(o, lwk)
            THEN [branch |-> "lwk",
                  returned |-> IF o = lwk
                               THEN make_scorer("kappa", Some("linear"), FALSE)
                               ELSE make_scorer("kappa", Some("linear"), TRUE)]
            ELSE IF ThirdBranchTest(o)
            THEN [branch |-> "second lwk",
                  returned |-> IF o = lwk
                               THEN make_scorer("kappa", Some("quadratic"), FALSE)
                               ELSE make_scorer("kappa", Some("quadratic"), TRUE)]
            ELSE [branch |-> "else", returned |-> MetricName(o)]

ResolveObjectiveFunction ==
    /\ pc = "rof_entry"
    /\ LET out == ResolveObjective(rof.objective)
       IN rof' = [rof EXCEPT !.branch = out.branch, !.returned = Some(out.returned)]
    /\ pc' = "rof_done"
    /\ UNCHANGED <<err, params, validated, sampled, vec, gs, cv, cp, mb, run, rp, args>>

InitObjective ==
    /\ pc = "rof_entry"
    /\ err = "none"
    /\ rof \in {[objective |-> o, branch |-> "none", returned |-> None] :
                   o \in Objectives}
    /\ params = Idle /\ validated = None /\ sampled = TRUE /\ vec = None
    /\ gs = Idle /\ cv = Idle /\ cp = Idle /\ mb = Idle /\ run = <<>>
    /\ rp = Idle /\ args = Idle

SpecObjective == InitObjective /\ [][ResolveObjectiveFunction]_vars

\* The scorer returned is a kappa scorer with quadratic weights.
QuadraticKappa(r) ==
    r.kind = "callable" /\ r.fn = "kappa" /\ r.weights = Some("quadratic")

\* C24: for every objective that is a non-empty string, the value returned
\* is never a quadratic-weighted kappa scorer and never comes from the
\* second 'lwk' branch; a key with prefix 'uwk' gives unweighted kappa and
\* a key with prefix 'lwk' linear-weighted kappa, with off-by-one tolerance
\* exactly when the key is longer than the prefix; every other key except
\* 'pearson_r', those beginning with 'qwk' included, is returned unchanged.
C24_NoQuadraticKappa ==
    (pc = "rof_done" /\ rof.objective # None /\ Val(rof.objective) # <<>>)
    => LET o == Val(rof.objective)
           r == Val(rof.returned)
       IN /\ ~QuadraticKappa(r)
          /\ rof.branch # "second lwk"
          /\ StartsWith(o, uwk) => r = make_scorer("kappa", None, o # uwk)
          /\ StartsWith(o, lwk) => r = make_scorer("kappa", Some("linear"), o # lwk)
          /\ (o # pearson_r /\ ~StartsWith(o, uwk) /\ ~StartsWith(o, lwk))
                => r = MetricName(o)

C24_Witness ==
    /\ pc = "rof_done"
    /\ rof.objective = Some(qwk \o <<"_">>)
    /\ rof.branch = "else"
    /\ Val(rof.returned) = MetricName(qwk \o <<"_">>)

(***************************************************************************)
(* main, lines 838-1173, from the parsed arguments to the construction of  *)
(* CVConfig and RunCVExperiments.  args holds the values of lines 973-994  *)
(* and what the run finds on the host: whether the output path is a file,  *)
(* whether the log path is a directory, whether the database answers.      *)
(* get_bin_ranges_helper reads the bin ranges from the database; any list  *)
(* of ranges may come back.                                                *)
(***************************************************************************)
Arguments ==
    [training_rounds : {0, 3},
     learners : {{"perc"}, {"mbkm", "perc"}},
     non_nlp_features : {{}, {"num_guides"}},
     only_non_nlp_features : BOOLEAN,
     nbins : {0, 2},
     bin_factor : {None, Some(-1), Some(2)},
     lognormal : BOOLEAN,
     power_transform : {None, Some(2)},
     use_feature_hasher : BOOLEAN,
     save_best_features : BOOLEAN,
     output_dir_is_file : BOOLEAN,
     log_file_path_is_dir : BOOLEAN,
     db_up : BOOLEAN]

\* Lines 997-1070: the first argument check that fails, or "none".
MainArgumentError(a) ==
    IF a.output_dir_is_file
    THEN "FileExistsError:output_dir"
    ELSE IF a.save_best_features /\ a.use_feature_hasher
    THEN "ValueError:save_best_features"
    ELSE IF a.log_file_path_is_dir
    THEN "FileExistsError:log_file_path"
    ELSE IF a.lognormal /\ Truthy(a.power_transform)
    THEN "ValueError:transforms"
    ELSE IF a.only_non_nlp_features /\ a.non_nlp_features = {}
    THEN "ValueError:only_non_nlp_features"
    ELSE IF a.nbins = 0 /\ Truthy(a.bin_factor)
    THEN "ValueError:bin_factor"
    ELSE IF a.nbins # 0 /\ Truthy(a.bin_factor) /\ Val(a.bin_factor) <= 0
    THEN "ValueError:bin_factor"
    ELSE "none"

\* Lines 997-1081: the checks of the arguments.  Lines 1003-1008 drop
\* save_best_features when no learner given can be introspected.
MainValidateArguments ==
    /\ pc = "main"
    /\ IF MainArgumentError(args) # "none"
       THEN pc' = "raised" /\ err' = MainArgumentError(args) /\ args' = args
       ELSE /\ pc' = "main_db"
            /\ err' = err
            /\ args' = [args EXCEPT !.save_best_features =
                            @ /\ ~(args.learners \subseteq no_introspection_learners)]
    /\ UNCHANGED <<params, validated, sampled, vec, gs, cv, cp, mb, run, rp, rof>>

\* Line 1129: sorted(learners), the keys in alphabetical order.
SortedLearners(S) == SelectSeq(<<"bnb", "mbkm", "perc">>, LAMBDA k : k \in S)

\* Lines 1131-1151: the arguments CVConfig is called with.
CVConfigArguments(a, bin_ranges) ==
    [db |-> "Collection",
     games |-> {"Dota_2"},
     learners |-> SortedLearners(a.learners),
     param_grids |-> [k \in DOMAIN SortedLearners(a.learners) |-> DefaultGrid],
     training_rounds |-> a.training_rounds,
     training_samples_per_round |-> 50,
     grid_search_samples_per_fold |-> 100,
     non_nlp_features |-> a.non_nlp_features,
     prediction_label |-> "total_game_hours_bin",
     objective |-> Some("qwk"),
     data_sampling |-> Some("even"),
     grid_search_folds |-> Some(5),
     hashed_features |-> IF a.use_feature_hasher THEN Some(0) ELSE None,
     nlp_features |-> Some(~a.only_non_nlp_features),
     bin_ranges |-> bin_ranges,
     lognormal |-> Some(a.lognormal),
     power_transform |-> a.power_transform,
     majority_baseline |-> Some(FALSE),
     rescale |-> Some(FALSE)]

\* Lines 1086-1151: connect to the database, read the bin ranges when bins
\* were asked for, and call CVConfig.
MainConnect ==
    /\ pc = "main_db"
    /\ IF ~args.db_up
       THEN pc' = "raised" /\ err' = "ConnectionFailure" /\ params' = params
       ELSE /\ pc' = "new"
            /\ err' = err
            /\ \E b \in IF args.nbins = 0 THEN {None}
                         ELSE {Some(x) : x \in BinRangeLists} :
                  params' = CVConfigArguments(args, b)
    /\ UNCHANGED <<validated, sampled, vec, gs, cv, cp, mb, run, rp, rof, args>>

InitMain ==
    /\ pc = "main"
    /\ err = "none"
    /\ args \in Arguments
    /\ params = Idle /\ validated = None /\ sampled = FALSE /\ vec = None
    /\ gs = Idle /\ cv = Idle /\ cp = Idle /\ mb = Idle
    /\ run = <<>> /\ rp = Idle /\ rof = Idle

NextMain ==
    \/ MainValidateArguments
    \/ MainConnect
    \/ CVConfigInit
    \/ FurtherValidateAndSetup
    \/ RunCVExperimentsInit

SpecMain == InitMain /\ [][NextMain]_vars

\* The errors main raises before it calls CVConfig.
MainErrors ==
    {"FileExistsError:output_dir", "ValueError:save_best_features",
     "FileExistsError:log_file_path", "ValueError:transforms",
     "ValueError:only_non_nlp_features", "ValueError:bin_factor",
     "ConnectionFailure"}

====
